---- MODULE Spec2Model ----
(***************************************************************************)
(* Uptime-Monitor: the scheduled check of the monitored sites              *)
(* (worker/src/cert_logic.js: scheduled, checkSites, isTimeToCheck,        *)
(* performCheck, sendDingTalkAlert) and the background refresh of the      *)
(* certificate / domain expiry (updateDomainCertInfo).                     *)
(*                                                                         *)
(* The D1 tables are the variables monitors and logs; each await of the    *)
(* code is the boundary between two actions.                               *)
(***************************************************************************)
EXTENDS Integers, Sequences, FiniteSets, Bags, TLC

VARIABLES
    clock,      \* wall clock: ms since StartMs
    cron,       \* a scheduled event is waiting to be handled
    overlap,    \* the deployment lets a scheduled event start while another runs
    net,        \* what the monitored sites can do: [messages, statuses]
    monitors,   \* table monitors: id -> row
    logs,       \* table logs: monitor_id -> bag of rows
    ticks,      \* the invocations of checkSites: slot -> [pc, now]
    tasks,      \* the performCheck of a slot for a monitor
    alerts,     \* the calls of sendDingTalkAlert: monitor -> sequence of messages
    acks,       \* history: monitor -> the errcodes sendDingTalkAlert returned
    bg,         \* the fire-and-forget refreshes: monitor -> sequence of units
    streak      \* history: monitor -> the failed probes persisted since the last success

vars == <<clock, cron, overlap, net, monitors, logs, ticks, tasks, alerts, acks, bg, streak>>

----------------------------------------------------------------------------
(* Bounds of the model *)

\* Date.now() when the model starts (ms); later than any interval
StartMs == 600000
\* how long a request of a probe takes that does not answer at once (ms)
ProbeMs == 250
\* cron periods the clock runs through
MaxMinutes == 5
\* background refreshes of one monitor that may be in flight together
MaxBg == 1

(* Constants of the program *)

\* the cron fires every minute
CronMs == 60000
\* (monitor.interval || 300)
DefaultInterval == 300
\* newRetryCount < 3
MaxRetries == 3
\* Date.now() - lastInfoCheck > 86400000
InfoCooldownMs == 86400000

MaxClock == MaxMinutes * CronMs
\* Date.now()
Now == StartMs + clock
\* Date.now() after d more ms
After(d) == Now + d
\* when the cron fires next
NextCron == (clock \div CronMs + 1) * CronMs

----------------------------------------------------------------------------
(* Values *)

\* SQL NULL / JS null
Null == <<>>
\* new Date(ms).toISOString(): an ISO string keeps the milliseconds
toISOString(ms) == <<ms>>
\* new Date(iso).getTime()
getTime(iso) == iso[1]
\* JS truthiness of a nullable column
Truthy(v) == v # Null

\* the rows of the table monitors
Monitors == DOMAIN monitors
\* the invocations of checkSites that may be running
Slots == {1, 2}

\* The bodies POSTed to /monitors: interval in seconds (0: not given),
\* keyword, and the number of labels of the hostname of url.
PostBodies ==
    { [interval |-> 120, keyword |-> Null,     labels |-> 2],
      [interval |-> 0,   keyword |-> <<"ok">>, labels |-> 3] }

\* INSERT INTO monitors (name, url, interval, keyword) VALUES (?, ?, ?, ?)
\* bound to (name, url, interval || 300, keyword || null); the other
\* columns take the defaults of the table.
InsertMonitor(id, body) ==
    [ id                |-> id,
      interval          |-> IF body.interval = 0 THEN DefaultInterval ELSE body.interval,
      keyword           |-> body.keyword,
      labels            |-> body.labels,
      status            |-> "UP",
      retry_count       |-> 0,
      last_check        |-> Null,
      check_info_status |-> Null,
      cert_expiry       |-> Null,
      domain_expiry     |-> Null ]

----------------------------------------------------------------------------
(* checkSites *)

\* the function without if (monitor.status === 'RETRYING') return true
isTimeToCheckByInterval(monitor, now) ==
    LET lastCheck  == IF Truthy(monitor.last_check) THEN getTime(monitor.last_check) ELSE 0
        intervalMs == (IF monitor.interval # 0 THEN monitor.interval ELSE DefaultInterval) * 1000
    IN  (now - lastCheck) >= intervalMs

\* return (now - lastCheck) > intervalMs
isTimeToCheckStrict(monitor, now) ==
    IF monitor.status = "RETRYING" THEN TRUE
    ELSE LET lastCheck  == IF Truthy(monitor.last_check) THEN getTime(monitor.last_check) ELSE 0
             intervalMs == (IF monitor.interval # 0 THEN monitor.interval ELSE DefaultInterval) * 1000
         IN  (now - lastCheck) > intervalMs

\* function isTimeToCheck(monitor, now)
isTimeToCheck(monitor, now) ==
    IF monitor.status = "RETRYING" THEN TRUE
    ELSE LET lastCheck  == IF Truthy(monitor.last_check) THEN getTime(monitor.last_check) ELSE 0
             intervalMs == (IF monitor.interval # 0 THEN monitor.interval ELSE DefaultInterval) * 1000
         IN  (now - lastCheck) >= intervalMs

NoMonitor == InsertMonitor(0, [interval |-> 0, keyword |-> Null, labels |-> 0])

\* The locals of one performCheck (monitor, startTime, status, isFail, reason,
\* latency, newStatus, newRetryCount, the last_check bound to the UPDATE) and
\* what it has done so far: the status of the response it got (response, 0:
\* none), the message of the error its try block caught (threw), whether the
\* text it read has the keyword (body), the messages it called sendDingTalkAlert with (sent), the refreshes
\* it started (refreshed), its UPDATEs of the row (updates) and its INSERTs
\* of a log (inserts).
IdleTask ==
    [ pc |-> "idle", monitor |-> NoMonitor, startTime |-> 0, status |-> 0,
      isFail |-> FALSE, reason |-> <<>>, latency |-> 0, newStatus |-> "UP",
      newRetryCount |-> 0, lastCheck |-> Null,
      response |-> 0, threw |-> Null, body |-> "none",
      sent |-> <<>>, refreshed |-> 0, updates |-> 0, inserts |-> 0 ]

IdleTick == [pc |-> "idle", now |-> 0]

\* The sites of the deployment: the messages their requests throw with and
\* the statuses they answer with in ProbeMs (a 500 comes at once).
ThrownMessages == {"connect timeout"}
Statuses == {200}

SlotIdle(s) == ticks[s].pc = "idle"

Init ==
    /\ clock = 0
    /\ cron = TRUE
    /\ overlap = FALSE
    /\ net = [messages |-> ThrownMessages, statuses |-> Statuses]
    /\ \E body \in PostBodies : monitors = [id \in {1} |-> InsertMonitor(id, body)]
    /\ logs = [id \in {1} |-> EmptyBag]
    /\ ticks = [s \in Slots |-> IdleTick]
    /\ tasks = [s \in Slots |-> [id \in {1} |-> IdleTask]]
    /\ alerts = [id \in {1} |-> <<>>]
    /\ acks = [id \in {1} |-> <<>>]
    /\ bg = [id \in {1} |-> <<>>]
    /\ streak = [id \in {1} |-> 0]

\* Time passes to the next minute and the cron raises the scheduled event;
\* a deployment without overlap has handled the previous one by then.
Advance ==
    /\ NextCron <= MaxClock
    /\ overlap \/ (~cron /\ \A s \in Slots : SlotIdle(s))
    /\ clock' = NextCron
    /\ cron' = TRUE
    /\ UNCHANGED <<overlap, net, monitors, logs, ticks, tasks, alerts, acks, bg, streak>>

\* async scheduled(event, env, ctx): ctx.waitUntil(checkSites(env));
\* checkSites runs to its first await: const now = Date.now(), then the SELECT.
Scheduled(s) ==
    /\ cron
    /\ SlotIdle(s)
    /\ \A r \in Slots : r < s => ~SlotIdle(r)
    /\ overlap \/ \A r \in Slots : SlotIdle(r)
    /\ \A id \in Monitors : Len(bg[id]) < MaxBg
    /\ cron' = FALSE
    /\ ticks' = [ticks EXCEPT ![s] = [pc |-> "select", now |-> Now]]
    /\ UNCHANGED <<clock, overlap, net, monitors, logs, tasks, alerts, acks, bg, streak>>

\* for (const monitor of results) { if (...) await performCheck(monitor, env) }:
\* the rows are taken in turn, the first due one only is started
CheckSitesInTurn(s) ==
    /\ ticks[s].pc = "select"
    /\ ticks' = [ticks EXCEPT ![s].pc = "run"]
    /\ tasks' = [tasks EXCEPT ![s] = [id \in Monitors |->
            IF /\ isTimeToCheck(monitors[id], ticks[s].now)
               /\ \A j \in Monitors : j < id => ~isTimeToCheck(monitors[j], ticks[s].now)
            THEN [IdleTask EXCEPT !.pc = "fetch", !.monitor = monitors[id],
                                  !.startTime = Now, !.status = 200]
            ELSE [IdleTask EXCEPT !.pc = "skip", !.monitor = monitors[id]]]]
    /\ UNCHANGED <<clock, cron, overlap, net, monitors, logs, alerts, acks, bg, streak>>

\* const { results } = await SELECT * FROM monitors; results.map(async monitor => ...):
\* each callback runs to its first await, the fetch of performCheck.
CheckSites(s) ==
    /\ ticks[s].pc = "select"
    /\ ticks' = [ticks EXCEPT ![s].pc = "run"]
    /\ tasks' = [tasks EXCEPT ![s] = [id \in Monitors |->
            IF isTimeToCheck(monitors[id], ticks[s].now)
            THEN [IdleTask EXCEPT !.pc = "fetch", !.monitor = monitors[id],
                                  !.startTime = Now, !.status = 200]
            ELSE [IdleTask EXCEPT !.pc = "skip", !.monitor = monitors[id]]]]
    /\ UNCHANGED <<clock, cron, overlap, net, monitors, logs, alerts, acks, bg, streak>>

----------------------------------------------------------------------------
(* performCheck: the probe *)

\* What fetch(monitor.url) does, and after how many ms: it throws an error
\* with a message, or resolves to a response with a status.
FetchOutcomes ==
    [kind : {"threw"}, message : net.messages, status : {0}, ms : {ProbeMs}]
      \cup [kind : {"response"}, message : {""}, status : net.statuses, ms : {ProbeMs}]
      \cup [kind : {"response"}, message : {""}, status : {500}, ms : {0}]

\* What response.text() does when a keyword is configured: it throws, or
\* resolves to a text that includes the keyword or does not.
TextOutcomes ==
    [kind : {"threw"}, message : net.messages]
      \cup [kind : {"has", "lacks"}, message : {""}]

\* response.ok taken for "a response came"
okAnyResponse(status) == status >= 200

\* response.ok
ok(status) == status >= 200 /\ status <= 299

\* errorMsg.includes(word), for the messages of the model
Includes(errorMsg, word) ==
    CASE errorMsg = "connect timeout"       -> word \in {"time", "timeout"}
      [] errorMsg = "TLS handshake timeout" -> word \in {"TLS", "handshake", "time", "timeout"}
      [] errorMsg = "certificate has expired" -> word \in {"certificate"}
      [] errorMsg = "SSL routines: wrong version" -> word \in {"SSL"}
      [] errorMsg = "worker runtime error"  -> word \in {"time"}
      [] OTHER -> FALSE

\* the catch block with the test for a timeout first
CatchReasonTimeoutFirst(message) ==
    LET errorMsg == message IN
    IF Includes(errorMsg, "time") \/ Includes(errorMsg, "timeout")
    THEN <<"Timeout">>
    ELSE IF Includes(errorMsg, "handshake") \/ Includes(errorMsg, "certificate")
              \/ Includes(errorMsg, "SSL") \/ Includes(errorMsg, "TLS")
    THEN <<"SSL Error: ", errorMsg>>
    ELSE IF errorMsg # "" THEN <<errorMsg>> ELSE <<"Network Error">>

\* the catch block of the probe: reason from e.message
CatchReason(message) ==
    LET errorMsg == message IN
    IF Includes(errorMsg, "handshake") \/ Includes(errorMsg, "certificate")
         \/ Includes(errorMsg, "SSL") \/ Includes(errorMsg, "TLS")
    THEN <<"SSL Error: ", errorMsg>>
    ELSE IF Includes(errorMsg, "time") \/ Includes(errorMsg, "timeout")
    THEN <<"Timeout">>
    ELSE IF errorMsg # "" THEN <<errorMsg>> ELSE <<"Network Error">>

\* if (true || Date.now() - lastInfoCheck > 86400000)
ShouldRefresh(monitor, now) ==
    LET lastInfoCheck == IF Truthy(monitor.check_info_status)
                         THEN getTime(monitor.check_info_status) ELSE 0
    IN  TRUE \/ (now - lastInfoCheck > InfoCooldownMs)

\* A fire-and-forget unit: the UPDATE of check_info_status, bound to
\* new Date().toISOString(), followed by updateDomainCertInfo(env, monitor).
NewRefresh(monitor, now) ==
    [ pc |-> "info", ts |-> toISOString(now), labels |-> monitor.labels,
      certExpiry |-> Null, domainExpiry |-> Null ]

----------------------------------------------------------------------------
(* performCheck: the state machine *)

\* Variants of the state machine with one slip each: the retry threshold
\* (limit), a count kept on success (keep), an alert repeated while DOWN
\* (repeat), a count cleared on entering DOWN (clear).
TransitionVariant(monitor, isFail, limit, orEqual, keep, repeat, clear) ==
    IF isFail
    THEN CASE monitor.status = "UP" ->
                [newStatus |-> "RETRYING", newRetryCount |-> 1, alert |-> "none"]
           [] monitor.status = "RETRYING" ->
                IF monitor.retry_count < limit \/ (orEqual /\ monitor.retry_count = limit)
                THEN [newStatus |-> "RETRYING", newRetryCount |-> monitor.retry_count + 1,
                      alert |-> "none"]
                ELSE [newStatus |-> "DOWN",
                      newRetryCount |-> IF clear THEN 0 ELSE monitor.retry_count,
                      alert |-> "DOWN"]
           [] OTHER ->
                [newStatus |-> monitor.status, newRetryCount |-> monitor.retry_count,
                 alert |-> IF repeat THEN "DOWN" ELSE "none"]
    ELSE [newStatus |-> "UP", newRetryCount |-> IF keep THEN monitor.retry_count ELSE 0,
          alert |-> IF monitor.status = "DOWN" THEN "RECOVERED" ELSE "none"]
\* if (newRetryCount <= 3)
TransitionOffByOne(monitor, isFail) ==
    TransitionVariant(monitor, isFail, MaxRetries, TRUE, FALSE, FALSE, FALSE)
\* if (newRetryCount < 2)
TransitionEarlyDown(monitor, isFail) ==
    TransitionVariant(monitor, isFail, MaxRetries - 1, FALSE, FALSE, FALSE, FALSE)
\* newRetryCount = 0 left out of the success branch
TransitionKeepCount(monitor, isFail) ==
    TransitionVariant(monitor, isFail, MaxRetries, FALSE, TRUE, FALSE, FALSE)
\* sendDingTalkAlert also in the branch of a monitor that is still DOWN
TransitionRepeatAlert(monitor, isFail) ==
    TransitionVariant(monitor, isFail, MaxRetries, FALSE, FALSE, TRUE, FALSE)
\* newRetryCount = 0 added where the monitor is confirmed DOWN
TransitionClearOnDown(monitor, isFail) ==
    TransitionVariant(monitor, isFail, MaxRetries, FALSE, FALSE, FALSE, TRUE)

\* let newStatus = monitor.status; let newRetryCount = monitor.retry_count;
\* if (isFail) {...} else {...}, with the message it alerts with
Transition(monitor, isFail) ==
    IF isFail
    THEN CASE monitor.status = "UP" ->
                [newStatus |-> "RETRYING", newRetryCount |-> 1, alert |-> "none"]
           [] monitor.status = "RETRYING" ->
                IF monitor.retry_count < MaxRetries
                THEN [newStatus |-> "RETRYING", newRetryCount |-> monitor.retry_count + 1,
                      alert |-> "none"]
                ELSE [newStatus |-> "DOWN", newRetryCount |-> monitor.retry_count,
                      alert |-> "DOWN"]
           [] OTHER ->
                [newStatus |-> monitor.status, newRetryCount |-> monitor.retry_count,
                 alert |-> "none"]
    ELSE [newStatus |-> "UP", newRetryCount |-> 0,
          alert |-> IF monitor.status = "DOWN" THEN "RECOVERED" ELSE "none"]

\* sendDingTalkAlert's message: `Monitor is DOWN: ${reason}` or
\* `Monitor Recovered! Latency: ${latency}ms`
AlertMessage(kind, reason, latency) ==
    IF kind = "DOWN" THEN [kind |-> "DOWN", reason |-> reason, latency |-> 0]
    ELSE [kind |-> "RECOVERED", reason |-> <<>>, latency |-> latency]

\* From const latency = Date.now() - startTime to the next await: the call of
\* sendDingTalkAlert, or the UPDATE of the row bound to new Date().toISOString().
Settle(t, status, isFail, reason, now) ==
    LET tr == Transition(t.monitor, isFail)
        u  == [t EXCEPT !.status = status, !.isFail = isFail, !.reason = reason,
                        !.latency = now - t.startTime,
                        !.newStatus = tr.newStatus, !.newRetryCount = tr.newRetryCount]
    IN  IF tr.alert # "none"
        THEN [u EXCEPT !.pc = "alert",
                       !.sent = Append(t.sent, AlertMessage(tr.alert, reason, u.latency))]
        ELSE [u EXCEPT !.pc = "update", !.lastCheck = toISOString(now)]

\* the calls of sendDingTalkAlert once the task has become u
Alerted(id, u) ==
    IF u.pc = "alert" THEN Append(alerts[id], u.sent[Len(u.sent)]) ELSE alerts[id]

\* what performCheck does with the outcome o of the fetch, at time now
FetchDone(s, id, t, o, now) ==
    IF o.kind = "threw"
    THEN LET u == Settle([t EXCEPT !.threw = <<o.message>>], 0, TRUE,
                         CatchReason(o.message), now) IN
         /\ tasks' = [tasks EXCEPT ![s][id] = u]
         /\ alerts' = [alerts EXCEPT ![id] = Alerted(id, u)]
         /\ bg' = bg
    ELSE IF ~ok(o.status)
    THEN LET u == Settle([t EXCEPT !.response = o.status], o.status, TRUE,
                         <<"HTTP ", ToString(o.status)>>, now) IN
         /\ tasks' = [tasks EXCEPT ![s][id] = u]
         /\ alerts' = [alerts EXCEPT ![id] = Alerted(id, u)]
         /\ bg' = bg
    ELSE LET r == IF ShouldRefresh(t.monitor, now) THEN 1 ELSE 0
             v == [t EXCEPT !.status = o.status, !.response = o.status,
                            !.refreshed = t.refreshed + r]
             u == IF Truthy(t.monitor.keyword)
                  THEN [v EXCEPT !.pc = "text"]
                  ELSE Settle(v, o.status, FALSE, <<>>, now)
         IN  /\ bg' = IF r = 1
                      THEN [bg EXCEPT ![id] = Append(bg[id], NewRefresh(t.monitor, now))]
                      ELSE bg
             /\ tasks' = [tasks EXCEPT ![s][id] = u]
             /\ alerts' = [alerts EXCEPT ![id] = Alerted(id, u)]

\* const response = await fetch(monitor.url, ...) returns or throws
Fetch(s, id) ==
    /\ tasks[s][id].pc = "fetch"
    /\ \E o \in FetchOutcomes :
         /\ clock + o.ms < NextCron
         /\ clock' = clock + o.ms
         /\ FetchDone(s, id, tasks[s][id], o, After(o.ms))
    /\ UNCHANGED <<cron, overlap, net, monitors, logs, ticks, streak, acks>>

\* const text = await response.text() returns or throws;
\* if (!text.includes(monitor.keyword)) ...
ReadText(s, id) ==
    /\ tasks[s][id].pc = "text"
    /\ \E o \in TextOutcomes :
         LET t      == tasks[s][id]
             status == IF o.kind = "threw" THEN 0 ELSE t.status
             isFail == o.kind # "has"
             reason == CASE o.kind = "threw" -> CatchReason(o.message)
                         [] o.kind = "lacks" -> <<"Keyword \"", t.monitor.keyword[1], "\" not found">>
                         [] OTHER -> <<>>
             u      == Settle([t EXCEPT !.threw = IF o.kind = "threw" THEN <<o.message>>
                                                  ELSE Null,
                                        !.body = IF o.kind = "threw" THEN "none" ELSE o.kind],
                              status, isFail, reason, Now)
         IN  /\ tasks' = [tasks EXCEPT ![s][id] = u]
             /\ alerts' = [alerts EXCEPT ![id] = Alerted(id, u)]
    /\ UNCHANGED <<clock, cron, overlap, net, monitors, logs, ticks, bg, streak, acks>>

\* What the webhook does with the POST of sendDingTalkAlert: it answers with
\* an errcode, answers with a body that is no JSON, or the request throws.
WebhookOutcomes ==
    [kind : {"answer"}, errcode : {0, 310000}]
      \cup [kind : {"nojson", "threw"}, errcode : {0}]

\* try { resp = await fetch(webhookUrl, ...); result = await resp.json();
\*       return result } catch (e) { return { errcode: -1, ... } }
sendDingTalkAlert(o) ==
    IF o.kind = "answer" THEN [errcode |-> o.errcode] ELSE [errcode |-> -1]

\* sendDingTalkAlert without its try/catch: an answer that is no JSON and a
\* thrown request reject the await, and performCheck with it
AlertReturnRaising(s, id) ==
    /\ tasks[s][id].pc = "alert"
    /\ \E o \in WebhookOutcomes :
         IF o.kind = "answer"
         THEN /\ acks' = [acks EXCEPT ![id] = Append(acks[id], o.errcode)]
              /\ tasks' = [tasks EXCEPT ![s][id].pc = "update",
                                        ![s][id].lastCheck = toISOString(Now)]
         ELSE /\ acks' = [acks EXCEPT ![id] = Append(acks[id], -1)]
              /\ tasks' = [tasks EXCEPT ![s][id].pc = "failed"]
    /\ UNCHANGED <<clock, cron, overlap, net, monitors, logs, ticks, alerts, bg, streak>>

\* await sendDingTalkAlert(...) returns; performCheck drops what it returns
\* and goes on to the UPDATE of the row.
AlertReturn(s, id) ==
    /\ tasks[s][id].pc = "alert"
    /\ \E o \in WebhookOutcomes :
         /\ acks' = [acks EXCEPT ![id] = Append(acks[id], sendDingTalkAlert(o).errcode)]
         /\ tasks' = [tasks EXCEPT ![s][id].pc = "update",
                                   ![s][id].lastCheck = toISOString(Now)]
    /\ UNCHANGED <<clock, cron, overlap, net, monitors, logs, ticks, alerts, bg, streak>>

\* UPDATE monitors SET last_check = ?, status = ?, retry_count = ? WHERE id = ?
UpdateRow(row, t) ==
    [row EXCEPT !.last_check = t.lastCheck, !.status = t.newStatus,
                !.retry_count = t.newRetryCount]

\* the UPDATE made only once the refresh the run started has settled
\* (await in front of the UPDATE of check_info_status and of updateDomainCertInfo)
UpdateStateAfterRefresh(s, id) ==
    /\ tasks[s][id].pc = "update"
    /\ bg[id] = <<>>
    /\ monitors' = [monitors EXCEPT ![id] = UpdateRow(monitors[id], tasks[s][id])]
    /\ tasks' = [tasks EXCEPT ![s][id].pc = "insert",
                              ![s][id].updates = tasks[s][id].updates + 1]
    /\ streak' = [streak EXCEPT ![id] = IF tasks[s][id].isFail THEN streak[id] + 1 ELSE 0]
    /\ UNCHANGED <<clock, cron, overlap, net, logs, ticks, alerts, acks, bg>>

UpdateState(s, id) ==
    /\ tasks[s][id].pc = "update"
    /\ monitors' = [monitors EXCEPT ![id] = UpdateRow(monitors[id], tasks[s][id])]
    /\ tasks' = [tasks EXCEPT ![s][id].pc = "insert",
                              ![s][id].updates = tasks[s][id].updates + 1]
    /\ streak' = [streak EXCEPT ![id] = IF tasks[s][id].isFail THEN streak[id] + 1 ELSE 0]
    /\ UNCHANGED <<clock, cron, overlap, net, logs, ticks, alerts, acks, bg>>

\* bound to (monitor.id, status, latency, isFail ? 0 : 1, reason)
LogRowFlagInverted(t) ==
    [ monitor_id |-> t.monitor.id, status_code |-> t.status, latency |-> t.latency,
      is_fail |-> IF t.isFail THEN 0 ELSE 1, reason |-> t.reason ]

\* INSERT INTO logs (monitor_id, status_code, latency, is_fail, reason)
\* bound to (monitor.id, status, latency, isFail ? 1 : 0, reason)
LogRow(t) ==
    [ monitor_id |-> t.monitor.id, status_code |-> t.status, latency |-> t.latency,
      is_fail |-> IF t.isFail THEN 1 ELSE 0, reason |-> t.reason ]

InsertLog(s, id) ==
    /\ tasks[s][id].pc = "insert"
    /\ logs' = [logs EXCEPT ![id] = logs[id] (+) SetToBag({LogRow(tasks[s][id])})]
    /\ tasks' = [tasks EXCEPT ![s][id].pc = "done",
                              ![s][id].inserts = tasks[s][id].inserts + 1]
    /\ UNCHANGED <<clock, cron, overlap, net, monitors, ticks, alerts, acks, bg, streak>>

\* await Promise.all(tasks) resolves: every callback has returned
TickDone(s) ==
    /\ ticks[s].pc = "run"
    /\ \A id \in Monitors : tasks[s][id].pc \in {"done", "skip"}
    /\ ticks' = [ticks EXCEPT ![s] = IdleTick]
    /\ tasks' = [tasks EXCEPT ![s] = [id \in Monitors |-> IdleTask]]
    /\ UNCHANGED <<clock, cron, overlap, net, monitors, logs, alerts, acks, bg, streak>>

----------------------------------------------------------------------------
(* The fire-and-forget refresh: the UPDATE of check_info_status, then
   updateDomainCertInfo *)

\* What a write of D1 does in a background unit: run() resolves or rejects.
StoreOutcomes == {"ok", "error"}

RemoveAt(seq, i) == SubSeq(seq, 1, i - 1) \o SubSeq(seq, i + 1, Len(seq))

\* the UPDATE of check_info_status awaited by performCheck: its rejection
\* is the rejection of the tick that runs
InfoWrittenSurfacing(id) ==
    \E i \in 1..Len(bg[id]) :
      /\ bg[id][i].pc = "info"
      /\ \E o \in StoreOutcomes :
           IF o = "ok"
           THEN /\ monitors' = [monitors EXCEPT ![id].check_info_status = bg[id][i].ts]
                /\ bg' = [bg EXCEPT ![id][i].pc = "lookup"]
                /\ ticks' = ticks
           ELSE /\ monitors' = monitors
                /\ bg' = [bg EXCEPT ![id] = RemoveAt(bg[id], i)]
                /\ ticks' = [s \in Slots |-> IF ticks[s].pc = "run"
                                              THEN [ticks[s] EXCEPT !.pc = "rejected"]
                                              ELSE ticks[s]]
      /\ UNCHANGED <<clock, cron, overlap, net, logs, tasks, alerts, acks, streak>>

\* UPDATE monitors SET check_info_status = ? WHERE id = ? settles:
\* .then(() => { updateDomainCertInfo(env, monitor) }).catch(console.error)
InfoWritten(id) ==
    \E i \in 1..Len(bg[id]) :
      /\ bg[id][i].pc = "info"
      /\ \E o \in StoreOutcomes :
           IF o = "ok"
           THEN /\ monitors' = [monitors EXCEPT ![id].check_info_status = bg[id][i].ts]
                /\ bg' = [bg EXCEPT ![id][i].pc = "lookup"]
           ELSE /\ monitors' = monitors
                /\ bg' = [bg EXCEPT ![id] = RemoveAt(bg[id], i)]
      /\ UNCHANGED <<clock, cron, overlap, net, logs, ticks, tasks, alerts, acks, streak>>

\* What one query of crt.sh does: a status that is not ok, a body that is no
\* JSON, a thrown request, or a JSON array of certificates.
Cert(d) == [not_after |-> d]
CertLists == {<<Cert(1), Cert(2)>>}
CertOutcomes ==
    [kind : {"notok"}, certs : {<<>>}]
      \cup [kind : {"json"}, certs : CertLists]

\* const fetchCerts = async (searchDomain) => {...}
fetchCerts(o) == IF o.kind = "json" THEN o.certs ELSE <<>>

\* certs.sort((a, b) => new Date(b.not_after) - new Date(a.not_after))
RECURSIVE InsertDesc(_, _)
InsertDesc(c, sorted) ==
    IF sorted = <<>> THEN <<c>>
    ELSE IF Head(sorted).not_after - c.not_after > 0
         THEN <<Head(sorted)>> \o InsertDesc(c, Tail(sorted))
         ELSE <<c>> \o sorted
RECURSIVE SortDesc(_)
SortDesc(certs) ==
    IF certs = <<>> THEN <<>> ELSE InsertDesc(Head(certs), SortDesc(Tail(certs)))

\* part 1 of updateDomainCertInfo: the queries of crt.sh for the hostname,
\* and for a subdomain without certificates the root domain and %.root
CertExpiry(labels, direct, root, wild) ==
    LET certs0    == fetchCerts(direct)
        cascade   == certs0 = <<>> /\ labels > 2
        rootCerts == fetchCerts(root)
        certs1    == IF cascade /\ Len(rootCerts) > 0 THEN certs0 \o rootCerts ELSE certs0
        wildCerts == fetchCerts(wild)
        certs     == IF cascade /\ Len(wildCerts) > 0 THEN certs1 \o wildCerts ELSE certs1
    IN  IF Len(certs) > 0 THEN <<SortDesc(certs)[1].not_after>> ELSE Null

\* What the request to rdap.org does: it throws, answers with a status that
\* is not ok or a body that is no JSON, or with the events of the domain.
Event(action, date) == [eventAction |-> action, eventDate |-> date]
EventLists ==
    { <<Event("registration", 3)>>,
      <<Event("registration", 3), Event("expiration", 9)>> }
RdapOutcomes ==
    [kind : {"threw"}, events : {<<>>}]
      \cup [kind : {"json"}, events : EventLists]

\* part 2 of updateDomainCertInfo:
\* events.find(e => e.eventAction.includes('expiration'))
DomainExpiry(o) ==
    IF o.kind # "json" THEN Null
    ELSE LET hits == {i \in 1..Len(o.events) : o.events[i].eventAction = "expiration"}
         IN  IF hits = {} THEN Null
             ELSE <<o.events[CHOOSE i \in hits : \A j \in hits : i <= j].eventDate>>

\* What the queries of a resolver run do: the one for the hostname, and the
\* two for the root domain and %.root, which are made (and matter) only for
\* a subdomain whose own query found nothing.
NotMade == [kind |-> "notok", certs |-> <<>>]
CertQueries(labels) ==
    { q \in CertOutcomes \X CertOutcomes \X CertOutcomes :
        (labels > 2 /\ fetchCerts(q[1]) = <<>>) \/ (q[2] = NotMade /\ q[3] = NotMade) }

\* updateDomainCertInfo up to if (certExpiry || domainExpiry)
ResolverLookup(id) ==
    \E i \in 1..Len(bg[id]) :
      /\ bg[id][i].pc = "lookup"
      /\ \E q \in CertQueries(bg[id][i].labels), r \in RdapOutcomes :
           LET certExpiry   == CertExpiry(bg[id][i].labels, q[1], q[2], q[3])
               domainExpiry == DomainExpiry(r)
           IN  IF Truthy(certExpiry) \/ Truthy(domainExpiry)
               THEN bg' = [bg EXCEPT ![id][i].pc = "store",
                                     ![id][i].certExpiry = certExpiry,
                                     ![id][i].domainExpiry = domainExpiry]
               ELSE bg' = [bg EXCEPT ![id] = RemoveAt(bg[id], i)]
      /\ UNCHANGED <<clock, cron, overlap, net, monitors, logs, ticks, tasks, alerts, acks, streak>>

\* UPDATE monitors SET cert_expiry = ?, domain_expiry = ? WHERE id = ?
\* settles; a rejection is caught and logged
ResolverStore(id) ==
    \E i \in 1..Len(bg[id]) :
      /\ bg[id][i].pc = "store"
      /\ \E o \in StoreOutcomes :
           monitors' = IF o = "ok"
                       THEN [monitors EXCEPT ![id].cert_expiry = bg[id][i].certExpiry,
                                             ![id].domain_expiry = bg[id][i].domainExpiry]
                       ELSE monitors
      /\ bg' = [bg EXCEPT ![id] = RemoveAt(bg[id], i)]
      /\ UNCHANGED <<clock, cron, overlap, net, logs, ticks, tasks, alerts, acks, streak>>

----------------------------------------------------------------------------

Next ==
    \/ Advance
    \/ \E s \in Slots : Scheduled(s)
    \/ \E s \in Slots : CheckSites(s)
    \/ \E s \in Slots, id \in Monitors : Fetch(s, id)
    \/ \E s \in Slots, id \in Monitors : ReadText(s, id)
    \/ \E s \in Slots, id \in Monitors : AlertReturn(s, id)
    \/ \E s \in Slots, id \in Monitors : UpdateState(s, id)
    \/ \E s \in Slots, id \in Monitors : InsertLog(s, id)
    \/ \E s \in Slots : TickDone(s)
    \/ \E id \in Monitors : InfoWritten(id)
    \/ \E id \in Monitors : ResolverLookup(id)
    \/ \E id \in Monitors : ResolverStore(id)

\* One scheduler, a scheduled event handled before the next is raised
Spec == Init /\ [][Next]_vars

----------------------------------------------------------------------------
(* A tick over two monitors, with a store that can reject the statements of
   checkSites and performCheck *)

\* const { results } = await env.DB.prepare('SELECT * FROM monitors').all()
\* rejects: checkSites rejects before any callback is made
SelectRejected(s) ==
    /\ ticks[s].pc = "select"
    /\ ticks' = [ticks EXCEPT ![s].pc = "rejected"]
    /\ UNCHANGED <<clock, cron, overlap, net, monitors, logs, tasks, alerts, acks, bg, streak>>

\* await UPDATE monitors SET last_check = ?, status = ?, retry_count = ? rejects:
\* performCheck rejects, so does the callback, and with it Promise.all(tasks)
UpdateRejected(s, id) ==
    /\ tasks[s][id].pc = "update"
    /\ tasks' = [tasks EXCEPT ![s][id].pc = "failed"]
    /\ ticks' = [ticks EXCEPT ![s].pc = "rejected"]
    /\ UNCHANGED <<clock, cron, overlap, net, monitors, logs, alerts, acks, bg, streak>>

\* await INSERT INTO logs ... rejects, after the UPDATE of the row was made
InsertRejected(s, id) ==
    /\ tasks[s][id].pc = "insert"
    /\ tasks' = [tasks EXCEPT ![s][id].pc = "failed"]
    /\ ticks' = [ticks EXCEPT ![s].pc = "rejected"]
    /\ UNCHANGED <<clock, cron, overlap, net, monitors, logs, alerts, acks, bg, streak>>

\* checkSites has rejected and the callbacks it left running have returned
TickEnded(s) ==
    /\ ticks[s].pc = "rejected"
    /\ \A id \in Monitors : tasks[s][id].pc \in {"idle", "skip", "done", "failed"}
    /\ ticks' = [ticks EXCEPT ![s] = IdleTick]
    /\ tasks' = [tasks EXCEPT ![s] = [id \in Monitors |-> IdleTask]]
    /\ UNCHANGED <<clock, cron, overlap, net, monitors, logs, alerts, acks, bg, streak>>

\* A monitor after n probes answered with 500 in the ticks before the last
\* one: its row, its logs, its alerts and the failed probes persisted.
Outage(id, body, n) ==
    LET row   == InsertMonitor(id, body)
        entry == [ monitor_id |-> id, status_code |-> 500, latency |-> 0,
                   is_fail |-> 1, reason |-> <<"HTTP ", "500">> ]
        down  == [kind |-> "DOWN", reason |-> <<"HTTP ", "500">>, latency |-> 0]
    IN  IF n = 0
        THEN [row |-> row, logs |-> EmptyBag, alerts |-> <<>>, streak |-> 0]
        ELSE [row    |-> [row EXCEPT !.status = IF n > MaxRetries THEN "DOWN" ELSE "RETRYING",
                                      !.retry_count = IF n > MaxRetries THEN MaxRetries ELSE n,
                                      !.last_check = toISOString(StartMs - row.interval * 1000)],
              logs   |-> [e \in {entry} |-> n],
              alerts |-> IF n > MaxRetries THEN <<down>> ELSE <<>>,
              streak |-> n]

PairIds == {1, 2}
PairBody(id) ==
    IF id = 1 THEN [interval |-> 60, keyword |-> Null, labels |-> 2]
    ELSE [interval |-> 0, keyword |-> <<"ok">>, labels |-> 3]

InitPair ==
    /\ clock = 0
    /\ cron = TRUE
    /\ overlap = FALSE
    /\ net = [messages |-> ThrownMessages, statuses |-> Statuses]
    /\ \E n \in {n \in [PairIds -> {0, MaxRetries, MaxRetries + 1}] : n[2] = 0} :
         LET o == [id \in PairIds |-> Outage(id, PairBody(id), n[id])] IN
         /\ monitors = [id \in PairIds |-> o[id].row]
         /\ logs = [id \in PairIds |-> o[id].logs]
         /\ alerts = [id \in PairIds |-> o[id].alerts]
         /\ acks = [id \in PairIds |-> [j \in 1..Len(o[id].alerts) |-> 0]]
         /\ streak = [id \in PairIds |-> o[id].streak]
    /\ ticks = [s \in Slots |-> IdleTick]
    /\ tasks = [s \in Slots |-> [id \in PairIds |-> IdleTask]]
    /\ bg = [id \in PairIds |-> <<>>]

NextPair ==
    \/ \E s \in Slots : Scheduled(s)
    \/ \E s \in Slots : CheckSites(s)
    \/ \E s \in Slots : SelectRejected(s)
    \/ \E s \in Slots, id \in Monitors : Fetch(s, id)
    \/ \E s \in Slots, id \in Monitors : ReadText(s, id)
    \/ \E s \in Slots, id \in Monitors : AlertReturn(s, id)
    \/ \E s \in Slots, id \in Monitors : UpdateState(s, id)
    \/ \E s \in Slots, id \in Monitors : UpdateRejected(s, id)
    \/ \E s \in Slots, id \in Monitors : InsertLog(s, id)
    \/ \E s \in Slots, id \in Monitors : InsertRejected(s, id)
    \/ \E s \in Slots : TickDone(s)
    \/ \E s \in Slots : TickEnded(s)
    \/ \E id \in Monitors : InfoWritten(id)
    \/ \E id \in Monitors : ResolverLookup(id)
    \/ \E id \in Monitors : ResolverStore(id)

\* One tick over two monitors: the first fresh, retrying or down, the
\* second fresh
SpecPair == InitPair /\ [][NextPair]_vars

----------------------------------------------------------------------------
(* The last ticks of an outage, in a deployment with or without overlap *)

\* the minute of the first of the ticks
TicksStart == (MaxMinutes - 3) * CronMs

InitTicks ==
    /\ clock = TicksStart
    /\ cron = TRUE
    /\ overlap \in BOOLEAN
    /\ net = [messages |-> {}, statuses |-> {}]
    /\ LET o == Outage(1, [interval |-> 120, keyword |-> Null, labels |-> 2], MaxRetries - 1) IN
         /\ monitors = [id \in {1} |-> o.row]
         /\ logs = [id \in {1} |-> o.logs]
         /\ alerts = [id \in {1} |-> o.alerts]
         /\ streak = [id \in {1} |-> o.streak]
    /\ acks = [id \in {1} |-> <<>>]
    /\ ticks = [s \in Slots |-> IdleTick]
    /\ tasks = [s \in Slots |-> [id \in {1} |-> IdleTask]]
    /\ bg = [id \in {1} |-> <<>>]

\* the site stays down: no probe succeeds, no refresh is started
NextTicks ==
    \/ Advance
    \/ \E s \in Slots : Scheduled(s)
    \/ \E s \in Slots : CheckSites(s)
    \/ \E s \in Slots, id \in Monitors : Fetch(s, id)
    \/ \E s \in Slots, id \in Monitors : AlertReturn(s, id)
    \/ \E s \in Slots, id \in Monitors : UpdateState(s, id)
    \/ \E s \in Slots, id \in Monitors : InsertLog(s, id)
    \/ \E s \in Slots : TickDone(s)

\* A monitor that has failed twice; scheduled events that wait for the tick
\* before them, or do not
SpecTicks == InitTicks /\ [][NextTicks]_vars

----------------------------------------------------------------------------
(* One tick over a site that can fail in every way the probe tells apart *)

ProbeMessages ==
    { "connect timeout", "TLS handshake timeout", "certificate has expired",
      "SSL routines: wrong version", "worker runtime error", "ECONNRESET", "" }
ProbeStatuses == {200, 204, 299, 301, 404}

InitProbe ==
    /\ clock = 0
    /\ cron = TRUE
    /\ overlap = FALSE
    /\ net = [messages |-> ProbeMessages, statuses |-> ProbeStatuses]
    /\ \E body \in PostBodies : monitors = [id \in {1} |-> InsertMonitor(id, body)]
    /\ logs = [id \in {1} |-> EmptyBag]
    /\ ticks = [s \in Slots |-> IdleTick]
    /\ tasks = [s \in Slots |-> [id \in {1} |-> IdleTask]]
    /\ alerts = [id \in {1} |-> <<>>]
    /\ acks = [id \in {1} |-> <<>>]
    /\ bg = [id \in {1} |-> <<>>]
    /\ streak = [id \in {1} |-> 0]

NextProbe ==
    \/ \E s \in Slots : Scheduled(s)
    \/ \E s \in Slots : CheckSites(s)
    \/ \E s \in Slots, id \in Monitors : Fetch(s, id)
    \/ \E s \in Slots, id \in Monitors : ReadText(s, id)
    \/ \E s \in Slots, id \in Monitors : UpdateState(s, id)
    \/ \E s \in Slots, id \in Monitors : InsertLog(s, id)
    \/ \E s \in Slots : TickDone(s)
    \/ \E id \in Monitors : InfoWritten(id)
    \/ \E id \in Monitors : ResolverLookup(id)
    \/ \E id \in Monitors : ResolverStore(id)

\* The first probe of a monitor
SpecProbe == InitProbe /\ [][NextProbe]_vars

----------------------------------------------------------------------------
(* updateDomainCertInfo, one request at a time *)

\* What a query of crt.sh answers: a status that is not ok, a body that is
\* no JSON, a thrown request, or a JSON array of records.
CertAnswers ==
    [kind : {"notok", "nojson", "threw"}, certs : {<<>>}]
      \cup [kind : {"json"}, certs : {<<>>, <<Cert(4), Cert(2)>>, <<Cert(3)>>}]

\* What the request to rdap.org answers: it throws, a status that is not ok,
\* a body that is no JSON, or the events of the domain.
RdapAnswers ==
    [kind : {"threw", "notok", "nojson"}, events : {<<>>}]
      \cup [kind : {"json"},
            events : {<<>>, <<Event("registration", 3)>>,
                      <<Event("registration", 3), Event("expiration", 9),
                        Event("expiration", 8)>>}]

\* certs.sort(...)[0].not_after, if (certs && certs.length > 0)
Latest(certs) == IF Len(certs) > 0 THEN <<SortDesc(certs)[1].not_after>> ELSE Null

\* updateDomainCertInfo(env, monitor) at its first request
NewResolver(monitor) ==
    [ pc |-> "direct", ts |-> monitor.check_info_status, labels |-> monitor.labels,
      certExpiry |-> Null, domainExpiry |-> Null, certs |-> <<>>, answers |-> <<>> ]

Answered(unit, query, o) == Append(unit.answers, [query |-> query, o |-> o])

\* the cascade skipped as soon as the root domain has records
QueryRootOnly(id) ==
    \E i \in 1..Len(bg[id]) :
      /\ bg[id][i].pc = "root"
      /\ \E o \in CertAnswers :
           LET rootCerts == fetchCerts(o)
               certs     == IF Len(rootCerts) > 0 THEN bg[id][i].certs \o rootCerts
                            ELSE bg[id][i].certs
           IN  bg' = [bg EXCEPT ![id][i].certs = certs,
                                ![id][i].answers = Answered(bg[id][i], "root", o),
                                ![id][i].certExpiry = Latest(certs),
                                ![id][i].pc = IF Len(rootCerts) > 0 THEN "rdap" ELSE "wild"]
      /\ UNCHANGED <<clock, cron, overlap, net, monitors, logs, ticks, tasks, alerts, acks, streak>>

\* a failed query of the root domain taken as an error of the whole part 1
QueryRootRaising(id) ==
    \E i \in 1..Len(bg[id]) :
      /\ bg[id][i].pc = "root"
      /\ \E o \in CertAnswers :
           LET rootCerts == fetchCerts(o)
               certs     == IF Len(rootCerts) > 0 THEN bg[id][i].certs \o rootCerts
                            ELSE bg[id][i].certs
           IN  bg' = [bg EXCEPT ![id][i].certs = certs,
                                ![id][i].answers = Answered(bg[id][i], "root", o),
                                ![id][i].pc = IF o.kind = "json" THEN "wild" ELSE "rdap"]
      /\ UNCHANGED <<clock, cron, overlap, net, monitors, logs, ticks, tasks, alerts, acks, streak>>

\* the UPDATE made whatever was found
QueryRdapAlwaysStore(id) ==
    \E i \in 1..Len(bg[id]) :
      /\ bg[id][i].pc = "rdap"
      /\ \E o \in RdapAnswers :
           bg' = [bg EXCEPT ![id][i].domainExpiry = DomainExpiry(o),
                            ![id][i].answers = Answered(bg[id][i], "rdap", o),
                            ![id][i].pc = "store"]
      /\ UNCHANGED <<clock, cron, overlap, net, monitors, logs, ticks, tasks, alerts, acks, streak>>

\* let certs = await fetchCerts(domain);
\* if ((!certs || certs.length === 0) && domain.split('.').length > 2) {...}
\* if (certs && certs.length > 0) certExpiry = latestCert.not_after
QueryDirect(id) ==
    \E i \in 1..Len(bg[id]) :
      /\ bg[id][i].pc = "direct"
      /\ \E o \in CertAnswers :
           LET certs == fetchCerts(o) IN
           bg' = [bg EXCEPT ![id][i].certs = certs,
                            ![id][i].answers = Answered(bg[id][i], "direct", o),
                            ![id][i].certExpiry = Latest(certs),
                            ![id][i].pc = IF Len(certs) = 0 /\ bg[id][i].labels > 2
                                          THEN "root" ELSE "rdap"]
      /\ UNCHANGED <<clock, cron, overlap, net, monitors, logs, ticks, tasks, alerts, acks, streak>>

\* const rootCerts = await fetchCerts(rootDomain);
\* if (rootCerts.length > 0) certs = certs.concat(rootCerts)
QueryRoot(id) ==
    \E i \in 1..Len(bg[id]) :
      /\ bg[id][i].pc = "root"
      /\ \E o \in CertAnswers :
           LET rootCerts == fetchCerts(o)
               certs     == IF Len(rootCerts) > 0 THEN bg[id][i].certs \o rootCerts
                            ELSE bg[id][i].certs
           IN  bg' = [bg EXCEPT ![id][i].certs = certs,
                                ![id][i].answers = Answered(bg[id][i], "root", o),
                                ![id][i].pc = "wild"]
      /\ UNCHANGED <<clock, cron, overlap, net, monitors, logs, ticks, tasks, alerts, acks, streak>>

\* const wildCerts = await fetchCerts(`%.${rootDomain}`);
\* if (wildCerts.length > 0) certs = certs.concat(wildCerts);
\* if (certs && certs.length > 0) certExpiry = latestCert.not_after
QueryWild(id) ==
    \E i \in 1..Len(bg[id]) :
      /\ bg[id][i].pc = "wild"
      /\ \E o \in CertAnswers :
           LET wildCerts == fetchCerts(o)
               certs     == IF Len(wildCerts) > 0 THEN bg[id][i].certs \o wildCerts
                            ELSE bg[id][i].certs
           IN  bg' = [bg EXCEPT ![id][i].certs = certs,
                                ![id][i].answers = Answered(bg[id][i], "wild", o),
                                ![id][i].certExpiry = Latest(certs),
                                ![id][i].pc = "rdap"]
      /\ UNCHANGED <<clock, cron, overlap, net, monitors, logs, ticks, tasks, alerts, acks, streak>>

\* const rdapRes = await fetch(`https://rdap.org/domain/${domain}`) ...;
\* if (certExpiry || domainExpiry) { await UPDATE ... }, else the run
\* returns (pc "end") without a statement
QueryRdap(id) ==
    \E i \in 1..Len(bg[id]) :
      /\ bg[id][i].pc = "rdap"
      /\ \E o \in RdapAnswers :
           LET domainExpiry == DomainExpiry(o) IN
           IF Truthy(bg[id][i].certExpiry) \/ Truthy(domainExpiry)
           THEN bg' = [bg EXCEPT ![id][i].domainExpiry = domainExpiry,
                                 ![id][i].answers = Answered(bg[id][i], "rdap", o),
                                 ![id][i].pc = "store"]
           ELSE bg' = [bg EXCEPT ![id][i].answers = Answered(bg[id][i], "rdap", o),
                                 ![id][i].pc = "end"]
      /\ UNCHANGED <<clock, cron, overlap, net, monitors, logs, ticks, tasks, alerts, acks, streak>>

\* The values a row can hold from an earlier run of the resolver
StoredExpiry == {Null, <<5>>}

\* A monitor whose refresh has written check_info_status and has called
\* updateDomainCertInfo; no tick is running.
InitResolver ==
    /\ clock = 0
    /\ cron = FALSE
    /\ overlap = FALSE
    /\ net = [messages |-> ThrownMessages, statuses |-> Statuses]
    /\ \E body \in PostBodies, c \in StoredExpiry, d \in StoredExpiry :
         LET row == [InsertMonitor(1, body) EXCEPT
                       !.last_check = toISOString(StartMs),
                       !.check_info_status = toISOString(StartMs),
                       !.cert_expiry = c, !.domain_expiry = d]
         IN  /\ monitors = [id \in {1} |-> row]
             /\ bg = [id \in {1} |-> <<NewResolver(row)>>]
    /\ logs = [id \in {1} |-> EmptyBag]
    /\ ticks = [s \in Slots |-> IdleTick]
    /\ tasks = [s \in Slots |-> [id \in {1} |-> IdleTask]]
    /\ alerts = [id \in {1} |-> <<>>]
    /\ acks = [id \in {1} |-> <<>>]
    /\ streak = [id \in {1} |-> 0]

NextResolver ==
    \/ \E id \in Monitors : QueryDirect(id)
    \/ \E id \in Monitors : QueryRoot(id)
    \/ \E id \in Monitors : QueryWild(id)
    \/ \E id \in Monitors : QueryRdap(id)
    \/ \E id \in Monitors : ResolverStore(id)

\* One run of updateDomainCertInfo
SpecResolver == InitResolver /\ [][NextResolver]_vars

----------------------------------------------------------------------------
(* The state machine *)

StatusValues == {"UP", "RETRYING", "DOWN"}

\* the state-transition table: (current status, retry_count, probe failed)
\* -> (new status, new retry_count)
TableRow(status, retry_count, failed) ==
    CASE status = "UP" /\ ~failed -> <<"UP", 0>>
      [] status = "UP" /\ failed -> <<"RETRYING", 1>>
      [] status = "RETRYING" /\ ~failed -> <<"UP", 0>>
      [] status = "RETRYING" /\ failed /\ retry_count < 3 -> <<"RETRYING", retry_count + 1>>
      [] status = "RETRYING" /\ failed /\ retry_count = 3 -> <<"DOWN", 3>>
      [] status = "DOWN" /\ failed -> <<"DOWN", retry_count>>
      [] status = "DOWN" /\ ~failed -> <<"UP", 0>>

\* the tasks that have made their UPDATE of the row
Persisted(t) == t.pc \in {"insert", "done"}
\* the tasks whose probe is classified and whose alert, if any, has returned
Settled(t) == t.pc \in {"update", "insert", "done"}

\* C1: for every status, every retry_count in 0..3 and every probe outcome,
\* the status and retry_count that performCheck computes, and the ones a run
\* has written to the row, are those of the state-transition table.
C1_TransitionTable ==
    /\ \A st \in StatusValues, rc \in 0..3, failed \in BOOLEAN :
         LET tr == Transition([status |-> st, retry_count |-> rc], failed)
         IN  <<tr.newStatus, tr.newRetryCount>> = TableRow(st, rc, failed)
    /\ \A s \in Slots, id \in Monitors :
         LET t == tasks[s][id] IN
         Persisted(t) =>
            <<monitors[id].status, monitors[id].retry_count>>
               = TableRow(t.monitor.status, t.monitor.retry_count, t.isFail)

\* a run has read RETRYING with retry_count 3, its probe failed, and it has
\* written DOWN with retry_count 3
C1_Witness ==
    \E s \in Slots, id \in Monitors :
       /\ Persisted(tasks[s][id])
       /\ tasks[s][id].monitor.status = "RETRYING"
       /\ tasks[s][id].monitor.retry_count = 3
       /\ tasks[s][id].isFail
       /\ monitors[id].status = "DOWN" /\ monitors[id].retry_count = 3

\* the alerts the table gives a run that read status from and computed to
ExpectedAlerts(from, to) ==
    IF from = "RETRYING" /\ to = "DOWN" THEN <<"DOWN">>
    ELSE IF from = "DOWN" /\ to = "UP" THEN <<"RECOVERED">>
    ELSE <<>>

Kinds(sent) == [i \in 1..Len(sent) |-> sent[i].kind]

\* C2: a run calls the alert dispatcher exactly once with a DOWN message iff
\* it takes the target from RETRYING to DOWN, exactly once with a recovery
\* message iff it takes it from DOWN to UP, and not at all otherwise.
C2_AlertsByTransition ==
    \A s \in Slots, id \in Monitors :
       LET t == tasks[s][id] IN
       /\ Settled(t) => Kinds(t.sent) = ExpectedAlerts(t.monitor.status, t.newStatus)
       /\ Len(t.sent) <= 1
       /\ Len(t.sent) <= Len(alerts[id])

\* a run that took the target from DOWN to UP has sent its one recovery alert
C2_Witness ==
    \E s \in Slots, id \in Monitors :
       /\ tasks[s][id].pc = "done"
       /\ tasks[s][id].monitor.status = "DOWN"
       /\ monitors[id].status = "UP"
       /\ Kinds(tasks[s][id].sent) = <<"RECOVERED">>
       /\ Kinds(alerts[id]) = <<"DOWN", "RECOVERED">>

\* C3: from UP a target is DOWN exactly from its 4th consecutive failed probe
\* on, never on fewer; the DOWN alert goes out with that 4th failure; a
\* success returns it to UP with retry_count 0 and the count of consecutive
\* failures starts again from zero.
C3_FourthFailure ==
    \A id \in Monitors :
       /\ monitors[id].status = "DOWN" <=> streak[id] >= 4
       /\ monitors[id].status = "UP" <=> streak[id] = 0
       /\ monitors[id].status = "RETRYING" => monitors[id].retry_count = streak[id]
       /\ monitors[id].status = "UP" => monitors[id].retry_count = 0
       /\ \A s \in Slots :
            (tasks[s][id].pc = "alert" /\ Kinds(tasks[s][id].sent) = <<"DOWN">>)
               => streak[id] = 3 /\ tasks[s][id].isFail

\* a target that failed three times, succeeded, and failed again is
\* RETRYING with a count of 1
C3_Witness ==
    \E id \in Monitors :
       /\ streak[id] = 1
       /\ monitors[id].status = "RETRYING"
       /\ \E r \in BagToSet(logs[id]) : r.is_fail = 0
       /\ \E r \in BagToSet(logs[id]) : r.is_fail = 1 /\ CopiesIn(r, logs[id]) >= 3

----------------------------------------------------------------------------
(* Which targets a tick checks *)

\* due as the rule states it: RETRYING always; UP or DOWN when
\* now - last_check >= interval_seconds * 1000, never checked counting as 0
DueByRule(row, now) ==
    \/ row.status = "RETRYING"
    \/ /\ row.status \in {"UP", "DOWN"}
       /\ now - (IF row.last_check = Null THEN 0 ELSE row.last_check[1]) >= row.interval * 1000

C4_DueExactly ==
    \A s \in Slots, id \in Monitors :
       LET t == tasks[s][id] IN
       /\ ticks[s].pc = "run" => (t.pc # "skip" <=> DueByRule(t.monitor, ticks[s].now))
       /\ t.pc = "skip" =>
             t.response = 0 /\ t.sent = <<>> /\ t.refreshed = 0 /\ t.updates = 0 /\ t.inserts = 0

\* while a tick has passed a target over, a step changes its row only as
\* the refresh an earlier run left behind, and adds no log and no alert
C4_SkippedUntouched ==
    \A s \in Slots, id \in Monitors :
       tasks[s][id].pc = "skip" =>
          /\ monitors'[id] = monitors[id] \/ bg'[id] # bg[id]
          /\ monitors'[id].status = monitors[id].status
          /\ monitors'[id].retry_count = monitors[id].retry_count
          /\ monitors'[id].last_check = monitors[id].last_check
          /\ logs'[id] = logs[id]
          /\ alerts'[id] = alerts[id]
          /\ Len(bg'[id]) <= Len(bg[id])
          /\ tasks'[s][id].pc \in {"skip", "idle"}

\* C4: on every tick a RETRYING target is due whatever the time elapsed and
\* its interval; an UP or DOWN target is due iff now - last_check >=
\* interval_seconds * 1000 (never checked: last_check = 0); a target that is
\* not due is not probed and the tick writes none of its fields.
C4_Dueness == []C4_DueExactly /\ [][C4_SkippedUntouched]_vars

\* a tick passes over a target that is DOWN, checked less than its interval ago
C4_Witness ==
    \E s \in Slots, id \in Monitors :
       /\ tasks[s][id].pc = "skip"
       /\ tasks[s][id].monitor.status = "DOWN"
       /\ ticks[s].now - tasks[s][id].monitor.last_check[1] < tasks[s][id].monitor.interval * 1000

----------------------------------------------------------------------------
(* The invariants of a row *)

\* C5: in every persisted state reached from (UP, 0), status UP implies
\* retry_count 0.
C5_UpHasZeroRetries ==
    \A id \in Monitors : monitors[id].status = "UP" => monitors[id].retry_count = 0

\* a target is back to UP with retry_count 0 after failed probes
C5_Witness ==
    \E id \in Monitors :
       /\ monitors[id].status = "UP" /\ monitors[id].retry_count = 0
       /\ \E r \in BagToSet(logs[id]) : r.is_fail = 1 /\ CopiesIn(r, logs[id]) >= 2

\* C6 as stated: retry_count is nonzero only while status is RETRYING, so a
\* target that is DOWN has retry_count 0.
C6_NonzeroOnlyRetrying ==
    \A id \in Monitors : monitors[id].retry_count # 0 => monitors[id].status = "RETRYING"

\* C6 amended: retry_count is nonzero only while status is RETRYING or DOWN
\* (it is 0 in UP, 1..3 in RETRYING), and a target that is DOWN keeps the
\* retry_count 3 it was declared DOWN with.
C6_NonzeroRetryingOrDown ==
    \A id \in Monitors :
       /\ monitors[id].retry_count # 0 => monitors[id].status \in {"RETRYING", "DOWN"}
       /\ monitors[id].status = "RETRYING" => monitors[id].retry_count \in 1..3
       /\ monitors[id].status = "DOWN" => monitors[id].retry_count = 3

\* a target stays DOWN with retry_count 3 over a further failed probe
C6_Witness ==
    \E s \in Slots, id \in Monitors :
       /\ Persisted(tasks[s][id])
       /\ tasks[s][id].monitor.status = "DOWN" /\ tasks[s][id].isFail
       /\ monitors[id].status = "DOWN" /\ monitors[id].retry_count = 3

----------------------------------------------------------------------------
(* What a run writes *)

\* the LogEntry of the probe of task t
ProbeEntry(t) ==
    [ monitor_id |-> t.monitor.id, status_code |-> t.status, latency |-> t.latency,
      is_fail |-> IF t.isFail THEN 1 ELSE 0, reason |-> t.reason ]

\* the state of a row as a run writes it
RowState(row) == <<row.status, row.retry_count, row.last_check>>

C7_Counted ==
    \A s \in Slots, id \in Monitors :
       LET t == tasks[s][id] IN
       /\ t.pc \in {"fetch", "text", "alert", "update"} => t.updates = 0 /\ t.inserts = 0
       /\ t.pc = "insert" => t.updates = 1 /\ t.inserts = 0
       /\ t.pc = "done" => t.updates = 1 /\ t.inserts = 1 /\ BagIn(ProbeEntry(t), logs[id])
       /\ Settled(t) => /\ t.latency = t.lastCheck[1] - t.startTime
                        /\ t.isFail <=> t.reason # <<>>
                        /\ t.status = 0 \/ t.status = t.response

C7_Steps ==
    /\ \A s \in Slots, id \in Monitors :
         LET t == tasks[s][id]
             u == tasks'[s][id]
         IN  /\ u.pc # t.pc /\ u.pc = "insert" =>
                   /\ t.pc = "update"
                   /\ RowState(monitors'[id]) = <<t.newStatus, t.newRetryCount, t.lastCheck>>
             /\ u.pc # t.pc /\ u.pc = "done" =>
                   /\ t.pc = "insert"
                   /\ logs'[id] = logs[id] (+) SetToBag({ProbeEntry(t)})
             /\ u.pc # t.pc /\ u.pc = "idle" => t.pc \in {"done", "skip"}
    /\ \A id \in Monitors :
         /\ logs'[id] # logs[id] =>
               \E s \in Slots : tasks[s][id].pc = "insert" /\ tasks'[s][id].pc = "done"
         /\ RowState(monitors'[id]) # RowState(monitors[id]) =>
               \E s \in Slots : tasks[s][id].pc = "update" /\ tasks'[s][id].pc = "insert"
         /\ \A r \in BagToSet(logs[id]) : CopiesIn(r, logs'[id]) >= CopiesIn(r, logs[id])

\* C7: every run for a due target, whatever the probe outcome, the
\* transition and the result of the alert, writes (status, retry_count,
\* last_check) to the row exactly once and appends exactly one LogEntry
\* with that probe's status_code, latency, is_fail and reason; a LogEntry is
\* never changed or removed afterwards.
C7_OneWriteOneLog == []C7_Counted /\ [][C7_Steps]_vars

\* a run that sent an alert is done: one UPDATE, one LogEntry
C7_Witness ==
    \E s \in Slots, id \in Monitors :
       /\ tasks[s][id].pc = "done"
       /\ tasks[s][id].sent # <<>>
       /\ tasks[s][id].updates = 1 /\ tasks[s][id].inserts = 1
       /\ BagCardinality(logs[id]) >= 4

----------------------------------------------------------------------------
(* The refresh of the certificate and domain expiry *)

Is2xx(status) == status >= 200 /\ status <= 299

\* C8 as stated: a run starts the refresh only when its probe is classified
\* as a success; a failed run, also one that fails on the keyword of a 2xx
\* response, starts none.
C8_RefreshOnlyOnSuccess ==
    \A s \in Slots, id \in Monitors :
       Settled(tasks[s][id]) /\ tasks[s][id].refreshed > 0 => ~tasks[s][id].isFail

\* C8 amended: a run starts the refresh only when its request was answered
\* with a 2xx status; a run that fails with another status or with a thrown
\* request starts none, while a run whose 2xx response fails afterwards (the
\* keyword is missing, or reading the body throws) has started it.
C8_RefreshOnlyOnOkResponse ==
    \A s \in Slots, id \in Monitors :
       LET t == tasks[s][id] IN
       /\ t.refreshed > 0 => Is2xx(t.response)
       /\ t.refreshed <= 1
       /\ Settled(t) /\ t.isFail /\ t.refreshed > 0 => Truthy(t.monitor.keyword)

\* a run failed on the keyword of a 200 response and has started the refresh
C8_Witness ==
    \E s \in Slots, id \in Monitors :
       /\ Settled(tasks[s][id])
       /\ tasks[s][id].isFail /\ tasks[s][id].status = 200
       /\ tasks[s][id].refreshed = 1
       /\ bg[id] # <<>>

\* C9: a refresh is started only when 24 hours have passed since
\* last_info_check or none has run, so two refreshes of a target are never
\* started less than 24 hours apart.
C9_CooldownRespected ==
    \A id \in Monitors : \A i \in 1..Len(bg[id]) :
       bg[id][i].pc = "info" =>
          \/ monitors[id].check_info_status = Null
          \/ bg[id][i].ts[1] - monitors[id].check_info_status[1] >= InfoCooldownMs

InfoUnits(units) == Cardinality({i \in 1..Len(units) : units[i].pc = "info"})

C10_NotAwaited ==
    \A s \in Slots :
       /\ \A id \in Monitors :
            LET t == tasks[s][id] IN
            /\ t.pc = "update" => ENABLED UpdateState(s, id)
            /\ t.pc = "insert" => ENABLED InsertLog(s, id)
            /\ Persisted(t) => RowState(monitors[id]) = <<t.newStatus, t.newRetryCount, t.lastCheck>>
            /\ t.pc = "done" => BagIn(ProbeEntry(t), logs[id])
       /\ (ticks[s].pc = "run" /\ \A id \in Monitors : tasks[s][id].pc \in {"done", "skip"})
             => ENABLED TickDone(s)

\* a step of a background unit alone: the UPDATE of check_info_status changes
\* that column only, the resolver cert_expiry and domain_expiry only
C10_BackgroundFrame ==
    \A id \in Monitors :
       bg'[id] # bg[id] /\ tasks' = tasks =>
          /\ RowState(monitors'[id]) = RowState(monitors[id])
          /\ logs' = logs /\ alerts' = alerts /\ streak' = streak
          /\ IF InfoUnits(bg'[id]) # InfoUnits(bg[id])
             THEN monitors'[id] = [monitors[id] EXCEPT
                                     !.check_info_status = monitors'[id].check_info_status]
             ELSE monitors'[id] = [monitors[id] EXCEPT
                                     !.cert_expiry = monitors'[id].cert_expiry,
                                     !.domain_expiry = monitors'[id].domain_expiry]

\* C10: the run that started a refresh goes on to its UPDATE and its
\* LogEntry without waiting for it; whatever the resolver does (values
\* found, nothing found, a failed lookup, a failed write, still running) the
\* status, retry_count, last_check and LogEntry of the run are those the run
\* computed; the resolver writes cert_expiry and domain_expiry only.
C10_ResolverDecoupled == []C10_NotAwaited /\ [][C10_BackgroundFrame]_vars

\* the run is done, row and LogEntry written, and its resolver still runs
C10_Witness ==
    \E s \in Slots, id \in Monitors :
       /\ tasks[s][id].pc = "done"
       /\ tasks[s][id].refreshed = 1
       /\ \E i \in 1..Len(bg[id]) : bg[id][i].pc \in {"lookup", "store"}

----------------------------------------------------------------------------
(* The pipelines of one tick *)

Ended(t) == t.pc \in {"idle", "skip", "done", "failed"}

C11_AllStarted ==
    \A s \in Slots :
       (\E id \in Monitors : tasks[s][id].pc # "idle") =>
          \A id \in Monitors :
             LET t == tasks[s][id] IN
             /\ t.pc # "idle"
             /\ DueByRule(t.monitor, ticks[s].now) <=> t.pc # "skip"

C11_NotBlocked ==
    \A s \in Slots, id \in Monitors :
       LET t == tasks[s][id] IN
       /\ t.pc = "fetch" => ENABLED Fetch(s, id)
       /\ t.pc = "text" => ENABLED ReadText(s, id)
       /\ t.pc = "alert" => ENABLED AlertReturn(s, id)
       /\ t.pc = "update" => ENABLED UpdateState(s, id)
       /\ t.pc = "insert" => ENABLED InsertLog(s, id)
       /\ t.pc = "done" => /\ t.updates = 1 /\ t.inserts = 1
                           /\ RowState(monitors[id]) = <<t.newStatus, t.newRetryCount, t.lastCheck>>
                           /\ BagIn(ProbeEntry(t), logs[id])

C11_Independent ==
    \A s \in Slots :
       /\ \A a \in Monitors, b \in Monitors :
            (a # b /\ tasks'[s][a] # tasks[s][a] /\ ~Ended(tasks[s][a])) =>
               /\ tasks'[s][b] = tasks[s][b]
               /\ monitors'[b] = monitors[b] /\ logs'[b] = logs[b]
               /\ alerts'[b] = alerts[b] /\ bg'[b] = bg[b]
       /\ (ticks[s].pc # "idle" /\ ticks'[s].pc = "idle") =>
             \A id \in Monitors : Ended(tasks[s][id])

----------------------------------------------------------------------------
(* A run of the resolver *)

\* the runs of the resolver, each with the answers it has got
Runs == {u \in UNION {{bg[id][i] : i \in 1..Len(bg[id])} : id \in Monitors} :
            u.pc \in {"direct", "root", "wild", "rdap", "store", "end"}}

Queries(u) == [j \in 1..Len(u.answers) |-> u.answers[j].query]

\* the records an answer of crt.sh counts for
Records(a) == IF a.o.kind = "json" THEN a.o.certs ELSE <<>>

\* the not_after of all records of the run's certificate queries
NotAfters(u) ==
    UNION { {Records(u.answers[j])[k].not_after : k \in 1..Len(Records(u.answers[j]))} :
            j \in {j \in 1..Len(u.answers) : u.answers[j].query # "rdap"} }

MaxOf(S) == CHOOSE m \in S : \A x \in S : x <= m

\* the date of the expiration event of the run's RDAP answer, if there is one
FoundDomain(u) ==
    \E j \in 1..Len(u.answers) :
       /\ u.answers[j].query = "rdap" /\ u.answers[j].o.kind = "json"
       /\ \E k \in 1..Len(u.answers[j].o.events) :
             u.answers[j].o.events[k].eventAction = "expiration"

FoundCert(u) == NotAfters(u) # {}

C12_StoreIffFound ==
    \A id \in Monitors : \A i \in 1..Len(bg[id]) :
       LET u == bg[id][i] IN
       /\ u.pc = "store" => /\ FoundCert(u) \/ FoundDomain(u)
                            /\ FoundCert(u) <=> Truthy(u.certExpiry)
                            /\ FoundDomain(u) <=> Truthy(u.domainExpiry)
                            /\ ENABLED ResolverStore(id)
       /\ u.pc = "end" => ~FoundCert(u) /\ ~FoundDomain(u)

C12_WriteOnlyByStore ==
    \A id \in Monitors :
       /\ <<monitors'[id].cert_expiry, monitors'[id].domain_expiry>>
             # <<monitors[id].cert_expiry, monitors[id].domain_expiry>>
            => \E i \in 1..Len(bg[id]) :
                  /\ bg[id][i].pc = "store"
                  /\ bg'[id] = RemoveAt(bg[id], i)
                  /\ monitors'[id] = [monitors[id] EXCEPT
                                        !.cert_expiry = bg[id][i].certExpiry,
                                        !.domain_expiry = bg[id][i].domainExpiry]
       /\ \A i \in 1..Len(bg[id]) :
            (bg[id][i].pc = "rdap" /\ Len(bg'[id]) = Len(bg[id]) /\ bg'[id][i].pc = "end")
               => monitors' = monitors

\* C12: a run of the resolver comes to its UPDATE of cert_expiry and
\* domain_expiry if and only if it found a certificate expiry or a domain
\* expiry; a run that found neither, also one whose lookups all failed,
\* returns without a statement and the stored values stay as they were.
C12_WriteIffFound == []C12_StoreIffFound /\ [][C12_WriteOnlyByStore]_vars

\* every lookup of a run for a subdomain failed, the run has returned, and
\* the expiry dates stored before are still there
C12_Witness ==
    \E id \in Monitors : \E i \in 1..Len(bg[id]) :
       /\ bg[id][i].pc = "end"
       /\ Len(bg[id][i].answers) = 4
       /\ \A j \in 1..4 : bg[id][i].answers[j].o.kind # "json"
       /\ monitors[id].cert_expiry = <<5>> /\ monitors[id].domain_expiry = <<5>>

\* C13: the queries for the root domain and for %.root are made if and only
\* if the query for the hostname counted zero records and the hostname has
\* more than two labels; then both are made, the second also when the first
\* found records, and their records are added; the certificate expiry is the
\* greatest not_after of all records counted, and absent iff there is none.
C13_Cascade ==
    \A u \in Runs :
       /\ u.pc # "direct" => Len(u.answers) >= 1 /\ u.answers[1].query = "direct"
       /\ u.pc = "wild" => Queries(u) = <<"direct", "root">>
       /\ u.pc \in {"rdap", "store", "end"} =>
            LET cascade == Records(u.answers[1]) = <<>> /\ u.labels > 2
                certQueries == SelectSeq(Queries(u), LAMBDA q : q # "rdap")
            IN  /\ certQueries = IF cascade THEN <<"direct", "root", "wild">>
                                 ELSE <<"direct">>
                /\ Len(u.certs) = Len(Records(u.answers[1]))
                                    + (IF cascade THEN Len(Records(u.answers[2]))
                                                         + Len(Records(u.answers[3]))
                                       ELSE 0)
                /\ u.certExpiry = IF NotAfters(u) = {} THEN Null
                                  ELSE <<MaxOf(NotAfters(u))>>

\* sub.example.com: no record of its own, two for example.com, one for
\* %.example.com; the expiry is the greatest of the three
C13_Witness ==
    \E u \in Runs :
       /\ u.labels = 3 /\ u.pc = "rdap"
       /\ u.answers[1].o = [kind |-> "json", certs |-> <<>>]
       /\ Records(u.answers[2]) = <<Cert(4), Cert(2)>>
       /\ Records(u.answers[3]) = <<Cert(3)>>
       /\ Len(u.certs) = 3
       /\ u.certExpiry = <<4>>

FailedAnswer(a) == a.o.kind \in {"notok", "nojson", "threw"}

\* C14: a certificate query answered with a status that is not ok, with a
\* body that is no JSON, or thrown, counts as zero records, and the run goes
\* on with the queries that remain, the lookup of the domain and the UPDATE
\* if something was found; a failed lookup of the domain gives no domain
\* expiry and keeps the certificate expiry found before.
C14_LookupsNeverAbort ==
    \A u \in Runs :
       /\ \A j \in 1..Len(u.answers) :
            FailedAnswer(u.answers[j]) /\ u.answers[j].query # "rdap" =>
               /\ Records(u.answers[j]) = <<>>
               /\ j = 1 /\ u.labels > 2 =>
                     \/ u.pc = "root"
                     \/ Len(u.answers) >= 2 /\ u.answers[2].query = "root"
               /\ u.answers[j].query = "root" =>
                     \/ u.pc = "wild"
                     \/ Len(u.answers) >= 3 /\ u.answers[3].query = "wild"
               /\ (u.answers[j].query = "wild" \/ (j = 1 /\ u.labels <= 2)) =>
                     \/ u.pc = "rdap"
                     \/ Len(u.answers) > j /\ u.answers[j + 1].query = "rdap"
       /\ u.pc \in {"store", "end"} =>
            LET r == u.answers[Len(u.answers)] IN
            /\ r.query = "rdap"
            /\ FailedAnswer(r) => /\ u.pc = "end" \/ u.domainExpiry = Null
                                  /\ u.pc = "store" <=> FoundCert(u)
                                  /\ FoundCert(u) => u.certExpiry = <<MaxOf(NotAfters(u))>>

\* the query for the hostname threw, the one for the root domain got no
\* JSON, %.root had a record, the lookup of the domain threw: the run is at
\* its UPDATE with that record's expiry and no domain expiry
C14_Witness ==
    \E id \in Monitors : \E i \in 1..Len(bg[id]) :
       LET u == bg[id][i] IN
       /\ u.pc = "store"
       /\ Len(u.answers) = 4
       /\ u.answers[1].o.kind = "threw" /\ u.answers[2].o.kind = "nojson"
       /\ u.answers[3].o.certs = <<Cert(3)>> /\ u.answers[4].o.kind = "threw"
       /\ u.certExpiry = <<3>> /\ u.domainExpiry = Null
       /\ ENABLED ResolverStore(id)

----------------------------------------------------------------------------
(* The classification of a probe *)

\* the messages that have a word of the two vocabularies in them
SslText == {"TLS handshake timeout", "certificate has expired", "SSL routines: wrong version"}
TimeText == {"connect timeout", "TLS handshake timeout", "worker runtime error"}

\* the CheckResult of a probe that got a response with this status (0:
\* none), caught an error with this message (threw), read a text that has or
\* lacks the keyword (body), in the order of the classification policy
Classified(monitor, response, threw, body) ==
    IF response # 0 /\ ~Is2xx(response)
    THEN [status |-> response, isFail |-> TRUE,
          reason |-> <<"HTTP ", ToString(response)>>]
    ELSE IF threw = Null /\ Truthy(monitor.keyword) /\ body = "lacks"
    THEN [status |-> response, isFail |-> TRUE,
          reason |-> <<"Keyword \"", monitor.keyword[1], "\" not found">>]
    ELSE IF threw # Null /\ threw[1] \in SslText
    THEN [status |-> 0, isFail |-> TRUE, reason |-> <<"SSL Error: ", threw[1]>>]
    ELSE IF threw # Null /\ threw[1] \in TimeText
    THEN [status |-> 0, isFail |-> TRUE, reason |-> <<"Timeout">>]
    ELSE IF threw # Null
    THEN [status |-> 0, isFail |-> TRUE,
          reason |-> IF threw[1] = "" THEN <<"Network Error">> ELSE <<threw[1]>>]
    ELSE [status |-> response, isFail |-> FALSE, reason |-> <<>>]

\* C15: every outcome of the probe ends in a CheckResult, classified in the
\* order: a response with a status that is no success -> "HTTP <status>"; a
\* successful response without the configured keyword -> the keyword named;
\* a thrown request with handshake/certificate/SSL/TLS in its text -> "SSL
\* Error: <message>", also when the text has time/timeout in it; else with
\* time/timeout -> "Timeout"; else the message, "Network Error" if empty;
\* else success with is_fail false and no reason. status_code is 0 exactly
\* when the request threw.
C15_Classification ==
    \A s \in Slots, id \in Monitors :
       LET t == tasks[s][id] IN
       /\ t.pc \in {"idle", "skip", "fetch", "text", "alert", "update", "insert", "done"}
       /\ Settled(t) \/ t.pc = "alert" =>
            /\ [status |-> t.status, isFail |-> t.isFail, reason |-> t.reason]
                  = Classified(t.monitor, t.response, t.threw, t.body)
            /\ t.status = 0 <=> t.threw # Null
            /\ t.body # "none" => Truthy(t.monitor.keyword) /\ Is2xx(t.response)
            /\ t.isFail <=> t.reason # <<>>
       /\ t.pc = "fetch" => ENABLED Fetch(s, id)
       /\ t.pc = "text" => ENABLED ReadText(s, id)

\* a request that threw "TLS handshake timeout" is an SSL error, not a timeout
C15_Witness ==
    \E s \in Slots, id \in Monitors :
       /\ Settled(tasks[s][id])
       /\ tasks[s][id].threw = <<"TLS handshake timeout">>
       /\ tasks[s][id].reason = <<"SSL Error: ", "TLS handshake timeout">>
       /\ tasks[s][id].status = 0 /\ tasks[s][id].isFail

----------------------------------------------------------------------------
(* The alert dispatcher *)

\* C16 (the acknowledgment): what sendDingTalkAlert returns for each thing
\* the webhook can do
C16_Acknowledged ==
    /\ \A o \in WebhookOutcomes :
          sendDingTalkAlert(o).errcode = IF o.kind = "answer" THEN o.errcode ELSE -1
    /\ {o.kind : o \in WebhookOutcomes} = {"answer", "nojson", "threw"}
    /\ \A id \in Monitors :
          /\ \A j \in 1..Len(acks[id]) : acks[id][j] \in {0, 310000, -1}
          /\ Len(alerts[id]) = Len(acks[id])
                + Cardinality({s \in Slots : tasks[s][id].pc = "alert"})

\* C16: sendDingTalkAlert returns to performCheck whatever the webhook does
\* (errcode 0, another errcode, an answer that is no JSON, a thrown
\* request), with errcode -1 when the request threw; after a DOWN or
\* recovery alert that failed the run still writes the new status and its
\* LogEntry, and later ticks do not send that alert again.
C16_DispatcherNeverRaises ==
    /\ C16_Acknowledged
    /\ \A s \in Slots, id \in Monitors :
          LET t == tasks[s][id] IN
          /\ t.pc = "alert" => ENABLED AlertReturn(s, id)
          /\ t.sent # <<>> => t.pc \in {"alert", "update", "insert", "done"}
          /\ t.sent # <<>> /\ Persisted(t) =>
                /\ monitors[id].status = t.newStatus
                /\ t.newStatus = IF t.isFail THEN "DOWN" ELSE "UP"
          /\ t.sent # <<>> /\ t.pc = "done" => BagIn(ProbeEntry(t), logs[id])
    /\ \A id \in Monitors : \A j \in 1..Len(alerts[id]) - 1 :
          alerts[id][j + 1].kind # alerts[id][j].kind

\* the DOWN alert was thrown (errcode -1), the row is DOWN all the same, and
\* a later tick has probed the target, failed again and sent nothing
C16_Witness ==
    \E s \in Slots, id \in Monitors :
       /\ acks[id] = <<-1>>
       /\ Len(alerts[id]) = 1 /\ alerts[id][1].kind = "DOWN"
       /\ monitors[id].status = "DOWN"
       /\ tasks[s][id].pc = "done" /\ tasks[s][id].isFail
       /\ tasks[s][id].monitor.status = "DOWN"
       /\ tasks[s][id].sent = <<>>

----------------------------------------------------------------------------
(* What a tick reports *)

\* the refresh a run of slot s started has lost its UPDATE of
\* check_info_status: nothing was written and the unit is gone
InfoWriteFailed(s, id) ==
    /\ tasks[s][id].refreshed = 1
    /\ bg[id] = <<>>
    /\ monitors[id].check_info_status = Null

\* the callbacks of the tick have all returned
Returned(s) ==
    /\ ticks[s].pc \in {"run", "rejected"}
    /\ \A id \in Monitors : tasks[s][id].pc \in {"skip", "done", "failed"}

\* C17 as stated: a tick reports failure if and only if a store statement of
\* that tick failed, the write of last_info_check and the write of the
\* metadata among them.
C17_EveryStoreFailureSurfaced ==
    \A s \in Slots :
       Returned(s) =>
          (ticks[s].pc = "rejected" <=>
              \E id \in Monitors : tasks[s][id].pc = "failed" \/ InfoWriteFailed(s, id))

C17_Reported ==
    \A s \in Slots :
       /\ ticks[s].pc = "rejected" =>
             \/ \A id \in Monitors : tasks[s][id].pc = "idle"
             \/ \E id \in Monitors : tasks[s][id].pc = "failed"
       /\ ticks[s].pc # "rejected" => \A id \in Monitors : tasks[s][id].pc # "failed"
       /\ \A id \in Monitors :
             tasks[s][id].pc = "failed" =>
                /\ tasks[s][id].updates <= 1 /\ tasks[s][id].inserts = 0
                /\ tasks[s][id].updates = 0 =>
                      RowState(monitors[id]) = RowState(tasks[s][id].monitor)

C17_Steps ==
    \A s \in Slots :
       /\ (ticks'[s].pc = "rejected" /\ ticks[s].pc # "rejected") =>
             \/ ticks[s].pc = "select"
             \/ \E id \in Monitors : /\ tasks[s][id].pc \in {"update", "insert"}
                                     /\ tasks'[s][id].pc = "failed"
       /\ (bg' # bg /\ tasks' = tasks) => ticks' = ticks
       /\ \A id \in Monitors :
             /\ (tasks[s][id].pc \in {"fetch", "text", "alert"}
                   /\ tasks'[s][id] # tasks[s][id]) =>
                   /\ ticks' = ticks
                   /\ tasks'[s][id].pc \in {"text", "alert", "update"}
             /\ tasks[s][id].pc = "failed" =>
                   /\ tasks'[s][id] \in {tasks[s][id], IdleTask}
                   /\ tasks'[s][id] = tasks[s][id] =>
                         RowState(monitors'[id]) = RowState(monitors[id])
                            /\ logs'[id] = logs[id]

\* C17 amended: a tick reports failure if and only if its SELECT, its UPDATE
\* of a row or its INSERT of a log row was rejected; a rejected write of
\* last_info_check or of the metadata is caught in the background unit and
\* never reported, and no failed probe, failed lookup or failed alert makes
\* the tick fail; the statement that was rejected is not made again.
C17_TickFailsIffPipelineStoreFails == []C17_Reported /\ [][C17_Steps]_vars

\* the callbacks of a tick have returned without a rejection although a
\* probe failed, an alert got no acknowledgment and the write of
\* last_info_check of a refresh was rejected
C17_Witness ==
    \E s \in Slots, a \in Monitors, b \in Monitors :
       /\ Returned(s) /\ ticks[s].pc = "run"
       /\ tasks[s][a].pc = "done" /\ tasks[s][a].isFail /\ tasks[s][a].sent # <<>>
       /\ acks[a][Len(acks[a])] = -1
       /\ tasks[s][b].pc = "done" /\ InfoWriteFailed(s, b)

----------------------------------------------------------------------------
(* Overlapping ticks *)

\* the pipelines that hold a snapshot of the row and have not written it yet
Pending(id) == {s \in Slots : tasks[s][id].pc \in {"fetch", "text", "alert", "update"}}

DoubleDown(id) ==
    \E j \in 1..Len(alerts[id]) - 1 :
       alerts[id][j].kind = "DOWN" /\ alerts[id][j + 1].kind = "DOWN"

\* failed probes were persisted that retry_count does not count
LostUpdate(id) ==
    monitors[id].status = "RETRYING" /\ monitors[id].retry_count < streak[id]

\* C18: with ticks that do not overlap a row is read and written by one
\* pipeline at a time, a pipeline writes from the row as it is, one outage
\* gives one DOWN alert and every failed probe persisted while RETRYING is
\* counted in retry_count; ticks that overlap reach the states where two
\* pipelines hold the same snapshot, two DOWN alerts go out for one outage
\* and two failed probes raise retry_count by one.
C18_RaceOnlyWithOverlap ==
    ~overlap =>
       \A id \in Monitors :
          /\ Cardinality(Pending(id)) <= 1
          /\ \A s \in Pending(id) : RowState(tasks[s][id].monitor) = RowState(monitors[id])
          /\ ~DoubleDown(id)
          /\ ~LostUpdate(id)
          /\ monitors[id].status = "RETRYING" => monitors[id].retry_count = streak[id]

\* overlapping ticks: two pipelines have read RETRYING with retry_count 3,
\* both probes failed and both have sent the DOWN alert, and the row still
\* shows that the two failed probes before them raised retry_count by one
C18_Witness ==
    \E id \in Monitors :
       /\ overlap
       /\ Len(alerts[id]) = 2
       /\ DoubleDown(id)
       /\ LostUpdate(id)
       /\ Cardinality(Pending(id)) = 2
       /\ \A s \in Pending(id) : /\ tasks[s][id].monitor.status = "RETRYING"
                                 /\ tasks[s][id].monitor.retry_count = MaxRetries
                                 /\ tasks[s][id].isFail

----------------------------------------------------------------------------
(* The alerts of a monitor, in the order of their dispatch *)

\* a pipeline has called sendDingTalkAlert and has not yet written the row
Dispatching(id) ==
    \E s \in Slots : tasks[s][id].pc \in {"alert", "update"} /\ tasks[s][id].sent # <<>>

\* C19: for a monitor created UP and probed by ticks that do not overlap,
\* the alerts sent are DOWN, RECOVERED, DOWN, RECOVERED, ... in this order,
\* the first a DOWN; outside a pipeline that is between its alert and its
\* write the row is DOWN exactly when the last alert was a DOWN, so a
\* recovery alert closes the outage of the DOWN alert before it.
C19_AlertsAlternate ==
    \A id \in Monitors :
       /\ \A j \in 1..Len(alerts[id]) :
             alerts[id][j].kind = IF j % 2 = 1 THEN "DOWN" ELSE "RECOVERED"
       /\ ~Dispatching(id) =>
             (monitors[id].status = "DOWN" <=> Len(alerts[id]) % 2 = 1)
       /\ \A s \in Slots :
             tasks[s][id].pc \in {"alert", "update"} /\ tasks[s][id].sent # <<>> =>
                (tasks[s][id].newStatus = "DOWN" <=> Len(alerts[id]) % 2 = 1)

\* an outage announced and its recovery announced after it, the row UP again
C19_Witness ==
    \E id \in Monitors :
       /\ ~overlap
       /\ Len(alerts[id]) = 2
       /\ alerts[id][1].kind = "DOWN"
       /\ alerts[id][2].kind = "RECOVERED"
       /\ monitors[id].status = "UP"
       /\ streak[id] = 0

----------------------------------------------------------------------------
(* From the first failed probe to the DOWN alert *)

\* the tick, counted in scheduled events, in which the instant ms falls
TickOf(ms) == (ms - StartMs) \div CronMs

\* C20: a monitor found RETRYING by a tick is probed by it whatever its
\* interval, and was last probed by the tick before; it holds the count of
\* the failed probes since it was UP, 1, 2 or 3, so that the ticks after a
\* first failure at tick t find the counts 1, 2, 3 at t+1, t+2, t+3; a
\* failure on the count 3 makes the monitor DOWN and sends the DOWN alert
\* in that run, a failure on a smaller count adds one and sends nothing; a
\* monitor found UP or DOWN is probed only if its interval has elapsed.
C20_BoundedDetection ==
    \A s \in Slots, id \in Monitors :
       LET t == tasks[s][id] IN
       ticks[s].pc = "run" =>
          /\ t.monitor.status = "RETRYING" =>
                /\ t.pc # "skip"
                /\ t.monitor.retry_count \in 1..MaxRetries
                /\ TickOf(getTime(t.monitor.last_check)) = TickOf(ticks[s].now) - 1
                /\ streak[id] = t.monitor.retry_count \/ t.pc \in {"insert", "done"}
                /\ Settled(t) /\ t.isFail /\ t.monitor.retry_count = MaxRetries =>
                      /\ t.newStatus = "DOWN"
                      /\ Kinds(t.sent) = <<"DOWN">>
                      /\ alerts[id][Len(alerts[id])].kind = "DOWN"
                /\ Settled(t) /\ t.isFail /\ t.monitor.retry_count < MaxRetries =>
                      /\ t.newStatus = "RETRYING"
                      /\ t.newRetryCount = t.monitor.retry_count + 1
                      /\ t.sent = <<>>
          /\ t.monitor.status = "UP" /\ Settled(t) /\ t.isFail =>
                t.newStatus = "RETRYING" /\ t.newRetryCount = 1 /\ t.sent = <<>>
          /\ t.monitor.status \in {"UP", "DOWN"} /\ t.pc # "skip" =>
                ticks[s].now - (IF Truthy(t.monitor.last_check)
                                THEN getTime(t.monitor.last_check) ELSE 0)
                   >= t.monitor.interval * 1000
          /\ t.pc \in {"insert", "done"} /\ t.isFail /\ monitors[id].status = "RETRYING" =>
                TickOf(getTime(monitors[id].last_check)) = TickOf(ticks[s].now)

\* probes failed at the ticks 0, 1, 2 and 3 of a monitor created UP with an
\* interval of five minutes: the fourth made it DOWN and sent the one DOWN
\* alert, and tick 4 passes it over
C20_Witness ==
    \E s \in Slots, id \in Monitors :
       /\ ticks[s].pc = "run"
       /\ TickOf(ticks[s].now) = MaxRetries + 1
       /\ tasks[s][id].pc = "skip"
       /\ tasks[s][id].monitor.status = "DOWN"
       /\ tasks[s][id].monitor.interval = DefaultInterval
       /\ TickOf(getTime(tasks[s][id].monitor.last_check)) = MaxRetries
       /\ streak[id] = MaxRetries + 1
       /\ Kinds(alerts[id]) = <<"DOWN">>

----------------------------------------------------------------------------
(* What a run of the resolver does to the dates stored before it *)

\* the run a step brings to its end by its UPDATE
Storing(id, i) ==
    /\ i \in 1..Len(bg[id])
    /\ bg[id][i].pc = "store"
    /\ bg'[id] = RemoveAt(bg[id], i)

\* C21: no step replaces a stored cert_expiry or domain_expiry that is not
\* null with null, and the UPDATE of a run that found one of the two values
\* only leaves the other column as it was stored.
C21_StoredDatesKept ==
    [][\A id \in Monitors :
          /\ Truthy(monitors[id].cert_expiry) => Truthy(monitors'[id].cert_expiry)
          /\ Truthy(monitors[id].domain_expiry) => Truthy(monitors'[id].domain_expiry)
          /\ \A i \in 1..Len(bg[id]) :
                Storing(id, i) =>
                   /\ ~Truthy(bg[id][i].certExpiry) =>
                         monitors'[id].cert_expiry = monitors[id].cert_expiry
                   /\ ~Truthy(bg[id][i].domainExpiry) =>
                         monitors'[id].domain_expiry = monitors[id].domain_expiry]_vars

====
